---- MODULE Spec2Model ----
(***************************************************************************)
(* CalPal: the AI response normaliser (services/geminiService.ts), the     *)
(* authentication reconciler and the boot screen (AuthProvider and Home in *)
(* app/index.tsx), the configuration resolver (app.config.js) and the      *)
(* billing initialiser (RevenueCat configuration).                         *)
(***************************************************************************)
EXTENDS Integers, Sequences, FiniteSets, TLC

(***************************************************************************)
(* Bounds                                                                  *)
(***************************************************************************)
\* longest model text, counted in segments
MaxTextLen == 5
\* largest number of weight samples handed to analyzeWeightTrends
MaxSamples == 3
\* most auth-state events the provider produces in one process lifetime
MaxEvents == 2
\* most calls of signIn, signUp, signOut and deleteAccount
MaxOps == 1

(***************************************************************************)
(* JavaScript values, as far as the normaliser looks at them               *)
(***************************************************************************)
\* a value held by a field: its runtime type, its text (pieces of a string,
\* elements of an array) and its number
Undefined == [t |-> "undefined", s |-> <<>>, n |-> 0]
Str(s) == [t |-> "string", s |-> s, n |-> 0]
Num(n) == [t |-> "number", s |-> <<>>, n |-> n]
Bool(b) == [t |-> "boolean", s |-> <<>>, n |-> IF b THEN 1 ELSE 0]
JNull == [t |-> "null", s |-> <<>>, n |-> 0]
Arr(s) == [t |-> "array", s |-> s, n |-> 0]
NestedObj == [t |-> "object", s |-> <<>>, n |-> 0]

\* a top-level value: an object with members m, or a non-object value v
Object(m) == [t |-> "object", v |-> NestedObj, m |-> m]
Scalar(v) == [t |-> v.t, v |-> v, m |-> <<>>]

\* typeof x
TypeOf(v) ==
  IF v.t \in {"null", "array", "object"} THEN "object" ELSE v.t

\* Array.isArray(x)
IsArray(v) == v.t = "array"

\* the truthiness the || operator tests
Truthy(v) ==
  CASE v.t = "string" -> v.s # <<>>
    [] v.t = "number" -> v.n # 0
    [] v.t = "boolean" -> v.n = 1
    [] v.t \in {"undefined", "null"} -> FALSE
    [] OTHER -> TRUE

\* a || b
OrElse(a, b) == IF Truthy(a) THEN a ELSE b

\* x.f on a top-level value that is neither null nor undefined
Get(x, f) ==
  IF x.t = "object" /\ f \in DOMAIN x.m THEN x.m[f] ELSE Undefined

(***************************************************************************)
(* Result shapes                                                           *)
(***************************************************************************)
FoodFields == {"title", "items", "calories", "protein", "carbs", "fats"}
NutritionFields == {"calories", "protein", "carbs", "fats"}
ExerciseFields == {"title", "caloriesBurned", "description"}
WeightFields == {"trend", "averageWeeklyChange", "feedback", "recommendedActions"}

Kinds == {"food", "nutrition", "exercise", "weight"}

FieldsOf(k) ==
  CASE k = "food" -> FoodFields
    [] k = "nutrition" -> NutritionFields
    [] k = "exercise" -> ExerciseFields
    [] k = "weight" -> WeightFields

\* the fields the result type declares as number
NumericFieldsOf(k) ==
  CASE k = "food" -> {"calories", "protein", "carbs", "fats"}
    [] k = "nutrition" -> {"calories", "protein", "carbs", "fats"}
    [] k = "exercise" -> {"caloriesBurned"}
    [] k = "weight" -> {"averageWeeklyChange"}

createDefaultResult ==
  Object([f \in FoodFields |->
    CASE f = "title" -> Str(<<"Unknown Meal">>)
      [] f = "items" -> Arr(<<"Unknown food item">>)
      [] OTHER -> Num(0)])

createDefaultNutritionGoals ==
  Object([f \in NutritionFields |->
    CASE f = "calories" -> Num(2000)
      [] f = "protein" -> Num(150)
      [] f = "carbs" -> Num(200)
      [] f = "fats" -> Num(65)])

createDefaultWeightAnalysis ==
  Object([f \in WeightFields |->
    CASE f = "trend" -> Str(<<"maintaining">>)
      [] f = "averageWeeklyChange" -> Num(0)
      [] f = "feedback" ->
           Str(<<"We couldn't analyze your weight trends at this time. Keep logging your weight regularly.">>)
      [] f = "recommendedActions" ->
           Arr(<<"Continue logging your weight daily or weekly",
                 "Stay consistent with your nutrition plan",
                 "Make sure to track all your meals and exercises">>)])

\* the result of analyzeWeightTrends for fewer than two samples
NotEnoughData ==
  Object([f \in WeightFields |->
    CASE f = "trend" -> Str(<<"maintaining">>)
      [] f = "averageWeeklyChange" -> Num(0)
      [] f = "feedback" ->
           Str(<<"Not enough data to analyze trends. Keep logging your weight regularly.">>)
      [] f = "recommendedActions" ->
           Arr(<<"Continue logging your weight daily or weekly">>)])

\* the template string: type, then intensity || "Moderate" in parentheses
ExerciseTitle(e) ==
  Str(<<e.type, " (", IF e.intensity = "" THEN "Moderate" ELSE e.intensity, ")">>)

\* the object the catch block of analyzeExercise returns
ExerciseFallback(e) ==
  Object([f \in ExerciseFields |->
    CASE f = "title" -> ExerciseTitle(e)
      [] f = "caloriesBurned" -> Num(0)
      [] f = "description" -> Str(e.description)])

(***************************************************************************)
(* The text the model answers with.  A text is a sequence of segments: a   *)
(* code fence, the label "json" with its newline, a newline, prose without *)
(* braces or fences, and the JSON rendering of one literal value.          *)
(***************************************************************************)
Fence == "fence"
JsonLabel == "json+newline"
Newline == "newline"
Prose == "prose"
Value == "value"
LBrace == "{"
RBrace == "}"
Members == "members"

Segments == {Fence, JsonLabel, Newline, Prose, Value}

\* JSON.stringify of a literal, as tokens: an object shows its braces, and
\* the braces of an object-valued member
Render(lit) ==
  IF lit.t = "object"
  THEN IF \A f \in DOMAIN lit.m : lit.m[f] = Undefined
       THEN <<LBrace, RBrace>>
       ELSE IF \E f \in DOMAIN lit.m : lit.m[f].t = "object"
            THEN <<LBrace, Members, LBrace, RBrace, RBrace>>
            ELSE <<LBrace, Members, RBrace>>
  ELSE <<lit.t>>

\* the characters of a text, as tokens
RECURSIVE Expand(_, _)
Expand(text, lit) ==
  IF text = <<>> THEN <<>>
  ELSE (IF Head(text) = Value THEN Render(lit) ELSE <<Head(text)>>)
         \o Expand(Tail(text), lit)

RECURSIVE StripNewlines(_)
StripNewlines(s) ==
  IF s = <<>> THEN <<>>
  ELSE IF Head(s) = Newline THEN StripNewlines(Tail(s))
       ELSE <<Head(s)>> \o StripNewlines(Tail(s))

Min(S) == CHOOSE x \in S : \A y \in S : x <= y
Max(S) == CHOOSE x \in S : \A y \in S : x >= y

NoMatch == [found |-> FALSE, whole |-> <<>>, group |-> <<>>]

\* the first pattern: fence, json label, lazy group, newline, fence
MatchFencedJson(s) ==
  LET Ends(i) == {j \in (i + 2)..(Len(s) - 1) : s[j] = Newline /\ s[j + 1] = Fence}
      Starts == {i \in 1..(Len(s) - 1) :
                   s[i] = Fence /\ s[i + 1] = JsonLabel /\ Ends(i) # {}}
  IN IF Starts = {} THEN NoMatch
     ELSE LET i == Min(Starts)
              j == Min(Ends(i))
          IN [found |-> TRUE, whole |-> SubSeq(s, i, j + 1),
              group |-> SubSeq(s, i + 2, j - 1)]

\* the second pattern: fence, lazy group, fence
MatchFenced(s) ==
  LET Ends(i) == {j \in (i + 1)..Len(s) : s[j] = Fence}
      Starts == {i \in 1..Len(s) : s[i] = Fence /\ Ends(i) # {}}
  IN IF Starts = {} THEN NoMatch
     ELSE LET i == Min(Starts)
              j == Min(Ends(i))
          IN [found |-> TRUE, whole |-> SubSeq(s, i, j),
              group |-> SubSeq(s, i + 1, j - 1)]

\* the third pattern: opening brace, lazy span, closing brace; no group
MatchBraces(s) ==
  LET Ends(i) == {j \in (i + 1)..Len(s) : s[j] = RBrace}
      Starts == {i \in 1..Len(s) : s[i] = LBrace /\ Ends(i) # {}}
  IN IF Starts = {} THEN NoMatch
     ELSE LET i == Min(Starts)
              j == Min(Ends(i))
          IN [found |-> TRUE, whole |-> SubSeq(s, i, j), group |-> <<>>]

\* the pattern of analyzeExercise: opening brace, greedy span, closing
\* brace; no group
MatchBracesGreedy(s) ==
  LET Ends(i) == {j \in (i + 1)..Len(s) : s[j] = RBrace}
      Starts == {i \in 1..Len(s) : s[i] = LBrace /\ Ends(i) # {}}
  IN IF Starts = {} THEN NoMatch
     ELSE LET i == Min(Starts)
              j == Max(Ends(i))
          IN [found |-> TRUE, whole |-> SubSeq(s, i, j), group |-> <<>>]

\* the three patterns tried in the opposite order
JsonMatchBracesFirst(s) ==
  IF MatchBraces(s).found THEN MatchBraces(s)
  ELSE IF MatchFenced(s).found THEN MatchFenced(s)
  ELSE MatchFencedJson(s)

\* a.match(p1) || a.match(p2) || a.match(p3)
JsonMatch(s) ==
  IF MatchFencedJson(s).found THEN MatchFencedJson(s)
  ELSE IF MatchFenced(s).found THEN MatchFenced(s)
  ELSE MatchBraces(s)

\* jsonMatch[1] || jsonMatch[0]: an absent or empty group is falsy
JsonStr(m) == IF m.group # <<>> THEN m.group ELSE m.whole

\* JSON.parse(str) for a text whose only JSON literal is lit: white space
\* around the literal is skipped, anything else is a SyntaxError
JsonParse(str, lit) ==
  IF StripNewlines(str) = Render(lit)
  THEN [ok |-> TRUE, value |-> lit]
  ELSE [ok |-> FALSE, value |-> Scalar(Undefined)]

\* lines 160-181: parsedResult after the match and the inner try/catch
ParsedResult(s, lit, fallback) ==
  LET m == JsonMatch(s)
  IN IF m.found
     THEN LET p == JsonParse(JsonStr(m), lit)
          IN IF p.ok THEN [stage |-> "decoded", value |-> p.value]
             ELSE [stage |-> "parseError", value |-> fallback]
     ELSE [stage |-> "noMatch", value |-> fallback]

(***************************************************************************)
(* The four analysis operations.  Each is computed as a record: threw      *)
(* (an exception leaves the function), value (what it returns), calls (the *)
(* transport calls it made) and stage (how far the body got).              *)
(***************************************************************************)
Return(v, calls, stage) ==
  [threw |-> FALSE, value |-> v, calls |-> calls, stage |-> stage]
Throw(calls, stage) ==
  [threw |-> TRUE, value |-> Scalar(Undefined), calls |-> calls, stage |-> stage]

\* the outer catch without its return: the exception leaves the function
CatchRethrow(body, fallback) == body

\* try { body } catch (error) { return fallback }
Catch(body, fallback) ==
  IF body.threw THEN [body EXCEPT !.threw = FALSE, !.value = fallback]
  ELSE body

\* a key test that lets the empty key through
KeyConfiguredAlways(key) == TRUE

\* !process.env.EXPO_PUBLIC_GEMINI_API_KEY is false
KeyConfigured(key) == key # ""

\* validation that gives up on the whole object at the first bad field
ValidateFoodAllOrNothing(p) ==
  IF /\ TypeOf(Get(p, "title")) = "string"
     /\ IsArray(Get(p, "items"))
     /\ \A f \in {"calories", "protein", "carbs", "fats"} :
          TypeOf(Get(p, f)) = "number"
  THEN Object([f \in FoodFields |-> Get(p, f)])
  ELSE createDefaultResult

\* the object literal analyzeFoodImage returns
ValidateFood(p) ==
  Object([f \in FoodFields |->
    CASE f = "title" ->
           IF TypeOf(Get(p, f)) = "string" THEN Get(p, f)
           ELSE Str(<<"Unknown Meal">>)
      [] f = "items" ->
           IF IsArray(Get(p, f)) THEN Get(p, f)
           ELSE Arr(<<"Unknown food item">>)
      [] OTHER ->
           IF TypeOf(Get(p, f)) = "number" THEN Get(p, f) ELSE Num(0)])

\* the object literal getNutritionRecommendations returns
ValidateNutrition(p) ==
  Object([f \in NutritionFields |->
    IF TypeOf(Get(p, f)) = "number" THEN Get(p, f)
    ELSE CASE f = "calories" -> Num(2000)
           [] f = "protein" -> Num(150)
           [] f = "carbs" -> Num(200)
           [] f = "fats" -> Num(65)])

\* the object literal analyzeExercise returns
BuildExercise(p, e) ==
  Object([f \in ExerciseFields |->
    CASE f = "title" -> OrElse(Get(p, f), ExerciseTitle(e))
      [] f = "caloriesBurned" -> OrElse(Get(p, f), Num(0))
      [] f = "description" -> OrElse(Get(p, f), Str(e.description))])

\* reading a property of null or undefined is a TypeError
Dereferencable(x) == x.t \notin {"null", "undefined"}

analyzeFoodImage(key, transport, s, lit) ==
  Catch(
    IF ~KeyConfigured(key)
    THEN Return(createDefaultResult, <<>>, "noKey")
    ELSE IF transport # "text"
    THEN Throw(<<"fetch">>, "transport")
    ELSE LET p == ParsedResult(s, lit, createDefaultResult)
         IN IF ~Dereferencable(p.value)
            THEN Throw(<<"fetch">>, "typeError")
            ELSE Return(ValidateFood(p.value), <<"fetch">>, p.stage),
    createDefaultResult)

getNutritionRecommendations(key, transport, s, lit) ==
  Catch(
    IF ~KeyConfigured(key)
    THEN Return(createDefaultNutritionGoals, <<>>, "noKey")
    ELSE IF transport # "text"
    THEN Throw(<<"fetch">>, "transport")
    ELSE LET p == ParsedResult(s, lit, createDefaultNutritionGoals)
         IN IF ~Dereferencable(p.value)
            THEN Throw(<<"fetch">>, "typeError")
            ELSE Return(ValidateNutrition(p.value), <<"fetch">>, p.stage),
    createDefaultNutritionGoals)

analyzeExercise(key, transport, s, lit, e) ==
  Catch(
    IF ~KeyConfigured(key)
    THEN Throw(<<>>, "noKey")
    ELSE IF transport # "text"
    THEN Throw(<<"generateContent">>, "transport")
    ELSE LET m == MatchBracesGreedy(s)
         IN IF ~m.found
            THEN Throw(<<"generateContent">>, "noMatch")
            ELSE LET p == JsonParse(m.whole, lit)
                 IN IF ~p.ok
                    THEN Throw(<<"generateContent">>, "parseError")
                    ELSE IF ~Dereferencable(p.value)
                    THEN Throw(<<"generateContent">>, "typeError")
                    ELSE Return(BuildExercise(p.value, e),
                                <<"generateContent">>, "decoded"),
    ExerciseFallback(e))

\* a length test that is off by one
TooFewSamplesOffByOne(weightData) == Len(weightData) < 1

\* weightData.length < 2
TooFewSamples(weightData) == Len(weightData) < 2

analyzeWeightTrends(key, transport, s, lit, weightData) ==
  Catch(
    IF TooFewSamples(weightData)
    THEN Return(NotEnoughData, <<>>, "fewSamples")
    ELSE IF ~KeyConfigured(key)
    THEN Throw(<<>>, "noKey")
    ELSE IF transport # "text"
    THEN Throw(<<"fetch">>, "transport")
    ELSE LET p == ParsedResult(s, lit, createDefaultWeightAnalysis)
         IN Return(p.value, <<"fetch">>, p.stage),
    createDefaultWeightAnalysis)

(***************************************************************************)
(* State                                                                   *)
(***************************************************************************)
VARIABLES
  \* one call of an analysis operation: which operation, its inputs, what
  \* the outside world answers, and what the call comes back with
  kind, apiKey, transport, textContent, literal, exerciseData, weightData,
  aiPc, outcome,
  \* React state of AuthProvider
  user, isLoading, authReady, initializing,
  \* the values of authReady and initializing the subscribed handler closes
  \* over, and the number of subscriptions made so far
  sub, subCount,
  \* the auth provider: its current user, the events it has yet to deliver
  \* and the number of events it has produced
  currentUser, upstream, nEvents,
  \* the handler invocations, in delivery order
  handlers,
  \* local storage, the router calls made
  storage, nav,
  \* the call of signIn, signUp, signOut or deleteAccount, and their number
  op, nOps

aiVars == <<kind, apiKey, transport, textContent, literal, exerciseData,
            weightData, aiPc, outcome>>

authVars == <<user, isLoading, authReady, initializing, sub, subCount,
              currentUser, upstream, nEvents, handlers, storage, nav, op, nOps>>

VARIABLES
  \* process.env as app.config.js reads it, the local override file, the
  \* extra of the resolved configuration, and whether it has been resolved
  env, localFile, expoConfig, cfgPc,
  \* Platform.OS, the identifiers of the billing module, and the call of
  \* configureRevenueCat
  platformOS, rcIds, rc,
  \* what useProfile hands to Home, and the state of Home
  profile, profileLoading, isCheckingProfile

cfgVars == <<env, localFile, expoConfig, cfgPc>>

rcVars == <<platformOS, rcIds, rc>>

homeVars == <<profile, profileLoading, isCheckingProfile>>

(***************************************************************************)
(* The authentication reconciler: values                                   *)
(***************************************************************************)
AUTH_SESSION_KEY == "calpal_auth_session"

NoEmail == "null"

\* the users of the auth provider; the second one has no email
FirebaseUsers ==
  {[uid |-> "uid-1", email |-> "a@calpal.app", displayName |-> "A"],
   [uid |-> "uid-2", email |-> NoEmail, displayName |-> "B"]}

\* null as FirebaseUser, null as User
NoFirebaseUser == [uid |-> "", email |-> NoEmail, displayName |-> ""]
NoUser == [id |-> "", email |-> NoEmail]

formatUser(firebaseUser) ==
  IF firebaseUser = NoFirebaseUser THEN NoUser
  ELSE [id |-> firebaseUser.uid, email |-> firebaseUser.email]

\* the AuthSession saveAuthSession stores for a user at time now
AuthSession(u, now) == [userId |-> u.id, email |-> u.email, lastLogin |-> now]

\* AsyncStorage.setItem and AsyncStorage.removeItem on a store of
\* key-value pairs
SetItem(store, key, value) ==
  {kv \in store : kv[1] # key} \cup {<<key, value>>}
RemoveItem(store, key) == {kv \in store : kv[1] # key}

\* the failures of the remote operations, and the failure of local storage
RemoteErrors == {"auth/network-request-failed", "auth/requires-recent-login"}
StorageError == "async-storage-failure"
NoCurrentUserError == "No authenticated user found"
ReauthenticateError ==
  "For security reasons, please sign out and sign in again before deleting your account."

Landing == "/"
Welcome == "/(onboarding)/welcome"

\* the call in progress; cleared tells whether its saveAuthSession(null) took
\* a stored snapshot away
NoOp == [name |-> "none", pc |-> "idle", log |-> <<>>, cause |-> "", error |-> "",
         at |-> 0, credential |-> NoFirebaseUser, event |-> 0, cleared |-> FALSE]

\* the state after AuthProvider has mounted and its effect has subscribed;
\* first is what the provider will report first
AuthBoot(first) ==
  /\ user = NoUser
  /\ isLoading = TRUE
  /\ authReady = FALSE
  /\ initializing = TRUE
  /\ sub = [authReady |-> FALSE, initializing |-> TRUE]
  /\ subCount = 1
  /\ currentUser = first
  /\ upstream = <<first>>
  /\ nEvents = 1
  /\ handlers = <<>>
  /\ storage = {}
  /\ nav = <<>>
  /\ op = NoOp
  /\ nOps = 0

(***************************************************************************)
(* The configuration resolver (app.config.js)                              *)
(***************************************************************************)
\* the most credentials the environment supplies at once, and the most the
\* local override file supplies at once
MaxSupplied == 2

FirebaseCredentials ==
  {"firebaseApiKey", "firebaseAuthDomain", "firebaseProjectId",
   "firebaseStorageBucket", "firebaseMessagingSenderId", "firebaseAppId"}

RevenueCatCredentials == {"revenueCatApiKeyIOS", "revenueCatApiKeyAndroid"}

\* the entries of extra that hold a credential
Credentials == FirebaseCredentials \cup {"geminiApiKey"} \cup RevenueCatCredentials

\* the variable of the environment read first for a credential
EnvNameOf(c) ==
  CASE c = "firebaseApiKey" -> "FIREBASE_API_KEY"
    [] c = "firebaseAuthDomain" -> "FIREBASE_AUTH_DOMAIN"
    [] c = "firebaseProjectId" -> "FIREBASE_PROJECT_ID"
    [] c = "firebaseStorageBucket" -> "FIREBASE_STORAGE_BUCKET"
    [] c = "firebaseMessagingSenderId" -> "FIREBASE_MESSAGING_SENDER_ID"
    [] c = "firebaseAppId" -> "FIREBASE_APP_ID"
    [] c = "geminiApiKey" -> "GEMINI_API_KEY"
    [] c = "revenueCatApiKeyIOS" -> "REVENUECAT_API_KEY_IOS"
    [] c = "revenueCatApiKeyAndroid" -> "REVENUECAT_API_KEY_ANDROID"

\* the variables that carry a credential
CredentialEnvNames ==
  {EnvNameOf(c) : c \in Credentials} \cup {"EXPO_PUBLIC_GEMINI_API_KEY"}

\* the last operand of each chain
Placeholder(c) ==
  CASE c = "firebaseApiKey" -> "YOUR_FIREBASE_API_KEY"
    [] c = "firebaseAuthDomain" -> "YOUR_FIREBASE_AUTH_DOMAIN"
    [] c = "firebaseProjectId" -> "YOUR_FIREBASE_PROJECT_ID"
    [] c = "firebaseStorageBucket" -> "YOUR_FIREBASE_STORAGE_BUCKET"
    [] c = "firebaseMessagingSenderId" -> "YOUR_FIREBASE_MESSAGING_SENDER_ID"
    [] c = "firebaseAppId" -> "YOUR_FIREBASE_APP_ID"
    [] OTHER -> ""

\* a || b on strings: the empty string and an absent value are falsy, and
\* both are written ""
Or(a, b) == IF a # "" THEN a ELSE b

\* what a variable of the environment and an entry of the local file hold
\* when they are supplied
EnvValue(n) == "env:" \o n
LocalValue(c) == "local:" \o c

\* the local override file: absent, loaded by require, or failing to load
NoFile == [status |-> "absent", values |-> [c \in Credentials |-> ""]]

isEasBuild(e) == e["EAS_BUILD"] = "true"

\* a resolver that reads the local file in every build
localConfigInEveryBuild(e, file) ==
  IF file.status = "loaded" THEN file.values
  ELSE [c \in Credentials |-> ""]

\* localConfig after lines 12-21: the exports of the file when the build is
\* not an EAS build and the file exists and loads, and {} otherwise
localConfig(e, file) ==
  IF ~isEasBuild(e) /\ file.status = "loaded" THEN file.values
  ELSE [c \in Credentials |-> ""]

firebaseConfig(e, lc) ==
  [c \in FirebaseCredentials |-> Or(e[EnvNameOf(c)], Or(lc[c], Placeholder(c)))]

revenueCatConfig(e, lc) ==
  [c \in RevenueCatCredentials |-> Or(e[EnvNameOf(c)], Or(lc[c], ""))]

\* the credentials of module.exports.extra
extra(e, file) ==
  LET lc == localConfig(e, file)
  IN [c \in Credentials |->
       IF c \in FirebaseCredentials THEN firebaseConfig(e, lc)[c]
       ELSE IF c = "geminiApiKey"
       THEN Or(e["GEMINI_API_KEY"],
               Or(e["EXPO_PUBLIC_GEMINI_API_KEY"], Or(lc["geminiApiKey"], "")))
       ELSE revenueCatConfig(e, lc)[c]]

Unresolved == [c \in Credentials |-> ""]

\* the environment after dotenv.config(): the credentials of the names in
\* S are supplied, EAS_BUILD is eas
EnvWith(S, eas) ==
  [n \in CredentialEnvNames \cup {"EAS_BUILD"} |->
     IF n = "EAS_BUILD" THEN eas
     ELSE IF n \in S THEN EnvValue(n) ELSE ""]

\* a local file that loads and supplies the credentials in S
FileWith(S) ==
  [status |-> "loaded",
   values |-> [c \in Credentials |-> IF c \in S THEN LocalValue(c) ELSE ""]]

\* a local file that supplies the credentials in S and throws when required
BrokenFile(S) == [FileWith(S) EXCEPT !.status = "broken"]

EasBuildValues == {"", "true", "false"}

Envs ==
  {EnvWith(S, eas) :
     S \in {T \in SUBSET CredentialEnvNames : Cardinality(T) <= MaxSupplied},
     eas \in EasBuildValues}

Files ==
  {NoFile, BrokenFile(Credentials)}
    \cup {FileWith(S) :
            S \in {T \in SUBSET Credentials : Cardinality(T) <= MaxSupplied}}

\* the configuration has not been evaluated
CfgIdle ==
  /\ env = EnvWith({}, "")
  /\ localFile = NoFile
  /\ expoConfig = Unresolved
  /\ cfgPc = "unresolved"

(***************************************************************************)
(* The billing gateway initialiser (RevenueCat configuration)              *)
(***************************************************************************)
\* Platform.OS of the builds the configuration declares
Platforms == {"ios", "android", "web"}

RC_API_KEYS(x) ==
  [IOS |-> Or(x["revenueCatApiKeyIOS"], ""),
   ANDROID |-> Or(x["revenueCatApiKeyAndroid"], "")]

\* RC_PRODUCT_IDS, RC_ENTITLEMENTS and RC_OFFERINGS as the module has them
RC_IDS ==
  [PREMIUM_MONTHLY |-> "com.calpal.ai.Monthly",
   PREMIUM_YEARLY |-> "com.calpal.ai.Annual",
   PREMIUM |-> "Premium",
   DEFAULT |-> "ofrng44a064495d"]

\* the same identifiers, each one present or the empty string
IdSets ==
  [PREMIUM_MONTHLY : {"", RC_IDS.PREMIUM_MONTHLY},
   PREMIUM_YEARLY : {"", RC_IDS.PREMIUM_YEARLY},
   PREMIUM : {"", RC_IDS.PREMIUM},
   DEFAULT : {"", RC_IDS.DEFAULT}]

getApiKey(os, keys) == IF os = "ios" THEN keys.IOS ELSE keys.ANDROID

validateRevenueCatConfig(os, keys, ids) ==
  IF os = "ios" /\ keys.IOS = "" THEN FALSE
  ELSE IF os = "android" /\ keys.ANDROID = "" THEN FALSE
  ELSE IF ids.PREMIUM_MONTHLY = "" \/ ids.PREMIUM_YEARLY = "" THEN FALSE
  ELSE IF ids.PREMIUM = "" THEN FALSE
  ELSE IF ids.DEFAULT = "" THEN FALSE
  ELSE TRUE

\* no call of configureRevenueCat has been made
NoRcCall ==
  [pc |-> "idle", calls |-> <<>>, apiKey |-> "", configured |-> "none",
   warmUp |-> "none", result |-> FALSE]

RcIdle ==
  /\ platformOS = "ios"
  /\ rcIds = RC_IDS
  /\ rc = NoRcCall

(***************************************************************************)
(* The boot screen (Home)                                                  *)
(***************************************************************************)
NoProfile == [exists |-> FALSE, name |-> ""]

\* what useProfile may hand over: no profile, a profile without a name, the
\* profile created with defaults, a completed profile
Profiles ==
  {NoProfile} \cup [exists : {TRUE}, name : {"", "User", "Sami"}]

LoadingView == "ActivityIndicator"
SetupWelcome == "/setup/welcome"
Tabs == "/(tabs)"
OnboardingWelcome == "/onboarding/welcome"

needsOnboarding(p) == ~p.exists \/ p.name = "" \/ p.name = "User"

\* a gate that looks at isCheckingProfile alone
ShowsLoadingWhileCheckingOnly(ready, authLoading, pLoading, checking) ==
  checking

\* the condition of line 54
ShowsLoading(ready, authLoading, pLoading, checking) ==
  ~ready \/ authLoading \/ pLoading \/ checking

\* what Home renders: the loading view or a Redirect to an href
Home(ready, authLoading, u, p, pLoading, checking) ==
  IF ShowsLoading(ready, authLoading, pLoading, checking) THEN LoadingView
  ELSE IF u # NoUser
       THEN IF needsOnboarding(p) THEN SetupWelcome ELSE Tabs
       ELSE OnboardingWelcome

\* Home has mounted and useProfile has not answered
HomeIdle ==
  /\ profile = NoProfile
  /\ profileLoading = TRUE
  /\ isCheckingProfile = TRUE

(***************************************************************************)
(* Inputs of the analysis operations                                       *)
(***************************************************************************)
ApiKeys == {"", "AIza-key"}

\* what the transport does: the request fails, the status is not a success,
\* the body is not JSON, the body lacks candidates[0].content.parts[0].text,
\* or the body carries a text
Transports == {"networkError", "notOk", "badBody", "noCandidates", "text"}

Texts == UNION {[1..n -> Segments] : n \in 0..MaxTextLen}

\* a bare literal, a literal in a labelled fenced block
CanonicalTexts == {<<Value>>, <<Fence, JsonLabel, Value, Newline, Fence>>}

PlainTexts == CanonicalTexts \cup {<<>>, <<Prose>>}

TypeSamples ==
  {Undefined, Str(<<"Salad">>), Num(5), Bool(TRUE), JNull,
   Arr(<<"lettuce">>), NestedObj}

\* the falsy values next to the truthy ones
TruthSamples ==
  TypeSamples \cup {Str(<<>>), Num(0), Bool(FALSE)}

FieldSamples(k, f) ==
  CASE k = "exercise" -> TruthSamples
    [] k = "food" /\ f \in {"title", "items"} ->
         {Undefined, Str(<<"Salad">>), Num(5), Arr(<<"lettuce">>), NestedObj}
    [] OTHER -> TypeSamples

\* every object the model may answer with, members missing or ill-typed
Payloads(k) ==
  {Object(m) : m \in {g \in [FieldsOf(k) -> TruthSamples] :
                        \A f \in FieldsOf(k) : g[f] \in FieldSamples(k, f)}}

\* the example of the specification, for each kind
WellFormed(k) ==
  Object([f \in FieldsOf(k) |->
    CASE f \in {"title", "trend", "feedback", "description"} -> Str(<<"Salad">>)
      [] f \in {"items", "recommendedActions"} -> Arr(<<"lettuce">>)
      [] OTHER -> Num(5)])

SmallLiterals(k) ==
  {Scalar(Num(5)), Scalar(Str(<<"Salad">>)), Scalar(Bool(TRUE)), Scalar(JNull),
   Scalar(Arr(<<"lettuce">>)),
   Object([f \in FieldsOf(k) |-> Undefined]),
   WellFormed(k),
   Object([f \in FieldsOf(k) |-> NestedObj])}

ExerciseInputs ==
  [type : {"Run"}, intensity : {"", "High"}, description : {<<>>, <<"5k loop">>}]

WeightInputs == {[i \in 1..n |-> 70 + i] : n \in 0..MaxSamples}

SomeExercise == [type |-> "Run", intensity |-> "High", description |-> <<"5k loop">>]
SomeWeights == <<71, 72>>

NoOutcome == Return(Scalar(Undefined), <<>>, "ready")

InitAI ==
  /\ AuthBoot(NoFirebaseUser)
  /\ CfgIdle /\ RcIdle /\ HomeIdle
  /\ kind \in Kinds
  /\ aiPc = "ready"
  /\ outcome = NoOutcome
  /\ \/ \* every text, a few literals
        /\ apiKey = "AIza-key"
        /\ transport = "text"
        /\ textContent \in Texts
        /\ literal \in SmallLiterals(kind)
        /\ exerciseData = SomeExercise
        /\ weightData = SomeWeights
     \/ \* every object, a few texts
        /\ apiKey = "AIza-key"
        /\ transport = "text"
        /\ textContent \in CanonicalTexts
        /\ literal \in Payloads(kind)
        /\ exerciseData = SomeExercise
        /\ weightData = SomeWeights
     \/ \* every key, transport outcome and caller input
        /\ apiKey \in ApiKeys
        /\ transport \in Transports
        /\ textContent \in PlainTexts
        /\ literal \in SmallLiterals(kind)
        /\ exerciseData \in (IF kind = "exercise" THEN ExerciseInputs ELSE {SomeExercise})
        /\ weightData \in (IF kind = "weight" THEN WeightInputs ELSE {SomeWeights})

\* the text as the patterns see it
Chars == Expand(textContent, literal)

Finish(r) ==
  /\ aiPc' = "done"
  /\ outcome' = r
  /\ UNCHANGED <<kind, apiKey, transport, textContent, literal, exerciseData,
                 weightData>>
  /\ UNCHANGED <<authVars, cfgVars, rcVars, homeVars>>

AnalyzeFoodImage ==
  /\ aiPc = "ready" /\ kind = "food"
  /\ Finish(analyzeFoodImage(apiKey, transport, Chars, literal))

GetNutritionRecommendations ==
  /\ aiPc = "ready" /\ kind = "nutrition"
  /\ Finish(getNutritionRecommendations(apiKey, transport, Chars, literal))

AnalyzeExercise ==
  /\ aiPc = "ready" /\ kind = "exercise"
  /\ Finish(analyzeExercise(apiKey, transport, Chars, literal, exerciseData))

AnalyzeWeightTrends ==
  /\ aiPc = "ready" /\ kind = "weight"
  /\ Finish(analyzeWeightTrends(apiKey, transport, Chars, literal, weightData))

NextAI ==
  \/ AnalyzeFoodImage
  \/ GetNutritionRecommendations
  \/ AnalyzeExercise
  \/ AnalyzeWeightTrends

(***************************************************************************)
(* The authentication reconciler: operations                               *)
(***************************************************************************)
\* saveAuthSession(u) at time now, on a store whose operation succeeds (ok)
\* or fails: removeItem is awaited outside any try, setItem inside one
saveAuthSession(store, u, now, ok) ==
  IF u = NoUser
  THEN IF ok THEN [store |-> RemoveItem(store, AUTH_SESSION_KEY), threw |-> FALSE]
       ELSE [store |-> store, threw |-> TRUE]
  ELSE IF ok
       THEN [store |-> SetItem(store, AUTH_SESSION_KEY, AuthSession(u, now)),
             threw |-> FALSE]
       ELSE [store |-> store, threw |-> FALSE]

\* router.replace target chosen by handleAuthNavigation
handleAuthNavigation(currentUserArg) ==
  IF currentUserArg # NoUser THEN Landing ELSE Welcome

\* authReady that follows the user instead of latching
AuthReadyAfterFollowsUser(h, cur) == h.user # NoUser

\* if (!authReady) setAuthReady(true), with the authReady of the closure
AuthReadyAfter(h, cur) == IF ~h.capReady THEN TRUE ELSE cur

\* a catch block that forgets setIsLoading(false)
LoadingAfterFailureKept(cur) == cur

\* setIsLoading(false) in the catch blocks of the four operations
LoadingAfterFailure(cur) == FALSE

\* what the caller receives for a failure: deleteAccount replaces the
\* requires-recent-login failure of its inner try
ThrownError(name, cause) ==
  IF name = "deleteAccount" /\ cause = "auth/requires-recent-login"
  THEN ReauthenticateError
  ELSE cause

\* Date.now(): the clock ticks with every event handled
Now == Len(handlers) + 1

\* the provider changes its user by itself (restored session, revoked
\* token, repeated report) and will report it
ExternalChange ==
  /\ nEvents < MaxEvents
  /\ \E fu \in FirebaseUsers \cup {NoFirebaseUser} :
       /\ currentUser' = fu
       /\ upstream' = Append(upstream, fu)
  /\ nEvents' = nEvents + 1
  /\ UNCHANGED <<user, isLoading, authReady, initializing, sub, subCount,
                 handlers, storage, nav, op, nOps>>
  /\ UNCHANGED <<aiVars, cfgVars, rcVars, homeVars>>

\* the subscribed handler is called with the next event and runs up to its
\* first await
AuthStateChanged ==
  /\ upstream # <<>>
  /\ LET formattedUser == formatUser(Head(upstream))
     IN /\ user' = formattedUser
        /\ handlers' = Append(handlers,
             [event |-> Len(handlers) + 1, user |-> formattedUser,
              capReady |-> sub.authReady, capInit |-> sub.initializing,
              at |-> Now, pc |-> "saving"])
  /\ upstream' = Tail(upstream)
  /\ UNCHANGED <<isLoading, authReady, initializing, sub, subCount,
                 currentUser, nEvents, storage, nav, op, nOps>>
  /\ UNCHANGED <<aiVars, cfgVars, rcVars, homeVars>>

\* saveAuthSession settles and the handler runs to its end
HandlerContinues ==
  \E i \in 1..Len(handlers), ok \in BOOLEAN :
    /\ handlers[i].pc = "saving"
    /\ LET h == handlers[i]
           r == saveAuthSession(storage, h.user, h.at, ok)
       IN /\ storage' = r.store
          /\ IF r.threw
             THEN /\ handlers' = [handlers EXCEPT ![i].pc = "threw"]
                  /\ UNCHANGED <<authReady, isLoading, initializing, nav>>
             ELSE /\ handlers' = [handlers EXCEPT ![i].pc = "done"]
                  /\ authReady' = AuthReadyAfter(h, authReady)
                  /\ isLoading' = FALSE
                  /\ initializing' = IF h.capInit THEN FALSE ELSE initializing
                  /\ nav' = IF h.capInit THEN nav
                            ELSE Append(nav, [event |-> h.event,
                                              href |-> handleAuthNavigation(h.user)])
    /\ UNCHANGED <<user, sub, subCount, currentUser, upstream, nEvents, op, nOps>>
    /\ UNCHANGED <<aiVars, cfgVars, rcVars, homeVars>>

\* a dependency of the effect changed: it unsubscribes and subscribes a
\* handler that closes over the new values; the provider calls a newly
\* registered observer with its current user
Resubscribe ==
  /\ sub # [authReady |-> authReady, initializing |-> initializing]
  /\ sub' = [authReady |-> authReady, initializing |-> initializing]
  /\ subCount' = subCount + 1
  /\ upstream' = Append(upstream, currentUser)
  /\ UNCHANGED <<user, isLoading, authReady, initializing, currentUser,
                 nEvents, handlers, storage, nav, op, nOps>>
  /\ UNCHANGED <<aiVars, cfgVars, rcVars, homeVars>>

Busy == op.pc \in {"remote", "saving"}

\* the frame of a step of an operation
OpFrame ==
  /\ UNCHANGED <<user, authReady, initializing, sub, subCount, handlers, nav>>
  /\ UNCHANGED <<aiVars, cfgVars, rcVars, homeVars>>

\* the catch block of the running operation
OpRejects(cause) ==
  /\ isLoading' = LoadingAfterFailure(isLoading)
  /\ op' = [op EXCEPT !.pc = "rejected", !.cause = cause,
                      !.error = ThrownError(op.name, cause)]

SignIn ==
  /\ ~Busy /\ nOps < MaxOps
  /\ isLoading' = TRUE
  /\ op' = [NoOp EXCEPT !.name = "signIn", !.pc = "remote",
                        !.log = <<"setIsLoading(true)", "signInWithEmailAndPassword">>]
  /\ nOps' = nOps + 1
  /\ UNCHANGED <<currentUser, upstream, nEvents, storage>>
  /\ OpFrame

SignUp ==
  /\ ~Busy /\ nOps < MaxOps
  /\ isLoading' = TRUE
  /\ op' = [NoOp EXCEPT !.name = "signUp", !.pc = "remote",
                        !.log = <<"setIsLoading(true)", "createUserWithEmailAndPassword">>]
  /\ nOps' = nOps + 1
  /\ UNCHANGED <<currentUser, upstream, nEvents, storage>>
  /\ OpFrame

SignOut ==
  /\ ~Busy /\ nOps < MaxOps
  /\ isLoading' = TRUE
  /\ op' = [NoOp EXCEPT !.name = "signOut", !.pc = "saving", !.at = Now,
                        !.log = <<"setIsLoading(true)", "saveAuthSession">>]
  /\ nOps' = nOps + 1
  /\ UNCHANGED <<currentUser, upstream, nEvents, storage>>
  /\ OpFrame

DeleteAccount ==
  /\ ~Busy /\ nOps < MaxOps
  /\ IF currentUser = NoFirebaseUser
     THEN /\ isLoading' = LoadingAfterFailure(TRUE)
          /\ op' = [NoOp EXCEPT !.name = "deleteAccount", !.pc = "rejected",
                                !.log = <<"setIsLoading(true)">>,
                                !.cause = NoCurrentUserError,
                                !.error = ThrownError("deleteAccount", NoCurrentUserError)]
     ELSE /\ isLoading' = TRUE
          /\ op' = [NoOp EXCEPT !.name = "deleteAccount", !.pc = "saving",
                                !.at = Now, !.credential = currentUser,
                                !.log = <<"setIsLoading(true)", "saveAuthSession">>]
  /\ nOps' = nOps + 1
  /\ UNCHANGED <<currentUser, upstream, nEvents, storage>>
  /\ OpFrame

\* the place in delivery order of the event a change to fu brings, 0 when
\* fu is the current user already
EventOf(fu) ==
  IF fu # currentUser THEN Len(handlers) + Len(upstream) + 1 ELSE 0

\* the provider reports a change of its user, and only a change
Report(fu) ==
  IF fu # currentUser
  THEN /\ nEvents < MaxEvents
       /\ upstream' = Append(upstream, fu)
       /\ nEvents' = nEvents + 1
  ELSE UNCHANGED <<upstream, nEvents>>

\* the remote operation of the running call settles
RemoteSettles ==
  /\ op.pc = "remote"
  /\ \/ \* it succeeds
        /\ IF op.name \in {"signIn", "signUp"}
           THEN \E fu \in FirebaseUsers :
                  /\ currentUser' = fu
                  /\ Report(fu)
                  /\ op' = [op EXCEPT !.pc = "saving", !.credential = fu,
                                      !.at = Now, !.event = EventOf(fu),
                                      !.log = Append(@, "saveAuthSession")]
           ELSE /\ currentUser' = NoFirebaseUser
                /\ Report(NoFirebaseUser)
                /\ op' = [op EXCEPT !.pc = "resolved",
                                    !.event = EventOf(NoFirebaseUser)]
        /\ UNCHANGED isLoading
     \/ \* it fails
        /\ \E e \in RemoteErrors : OpRejects(e)
        /\ UNCHANGED <<currentUser, upstream, nEvents>>
  /\ UNCHANGED <<storage, nOps>>
  /\ OpFrame

\* the saveAuthSession of the running call settles
OpStorageSettles ==
  /\ op.pc = "saving"
  /\ \E ok \in BOOLEAN :
       IF op.name \in {"signIn", "signUp"}
       THEN LET r == saveAuthSession(storage, formatUser(op.credential), op.at, ok)
            IN /\ storage' = r.store
               /\ op' = [op EXCEPT !.pc = "resolved"]
               /\ UNCHANGED isLoading
       ELSE LET r == saveAuthSession(storage, NoUser, op.at, ok)
            IN /\ storage' = r.store
               /\ IF r.threw
                  THEN OpRejects(StorageError)
                  ELSE /\ op' = [op EXCEPT !.pc = "remote",
                                   !.cleared = r.store # storage,
                                   !.log = Append(@, IF op.name = "signOut"
                                                     THEN "firebaseSignOut"
                                                     ELSE "deleteUser")]
                       /\ UNCHANGED isLoading
  /\ UNCHANGED <<currentUser, upstream, nEvents, nOps>>
  /\ OpFrame

\* no analysis call is in progress
AiIdle ==
  /\ kind = "food"
  /\ apiKey = ""
  /\ transport = "text"
  /\ textContent = <<>>
  /\ literal = Scalar(Undefined)
  /\ exerciseData = SomeExercise
  /\ weightData = SomeWeights
  /\ aiPc = "idle"
  /\ outcome = NoOutcome

InitAuth ==
  /\ AiIdle
  /\ CfgIdle /\ RcIdle /\ HomeIdle
  /\ \E first \in FirebaseUsers \cup {NoFirebaseUser} : AuthBoot(first)

NextAuth ==
  \/ ExternalChange
  \/ AuthStateChanged
  \/ HandlerContinues
  \/ Resubscribe
  \/ SignIn
  \/ SignUp
  \/ SignOut
  \/ DeleteAccount
  \/ RemoteSettles
  \/ OpStorageSettles

(***************************************************************************)
(* The configuration resolver and the billing initialiser: operations      *)
(***************************************************************************)
\* app.config.js is evaluated
ResolveConfig ==
  /\ cfgPc = "unresolved"
  /\ expoConfig' = extra(env, localFile)
  /\ cfgPc' = "resolved"
  /\ UNCHANGED <<env, localFile>>
  /\ UNCHANGED <<aiVars, authVars, rcVars, homeVars>>

\* a return value that follows the warm-up fetch
ReturnAfterWarmUpFollowsFetch(fetched) == fetched

\* return true, after the inner try/catch around getCustomerInfo
ReturnAfterWarmUp(fetched) == TRUE

RcFrame ==
  /\ UNCHANGED <<platformOS, rcIds>>
  /\ UNCHANGED <<aiVars, authVars, cfgVars, homeVars>>

\* configureRevenueCat up to its first await
ConfigureRevenueCat ==
  /\ cfgPc = "resolved"
  /\ rc.pc = "idle"
  /\ LET keys == RC_API_KEYS(expoConfig)
     IN IF ~validateRevenueCatConfig(platformOS, keys, rcIds)
        THEN rc' = [rc EXCEPT !.pc = "returned", !.result = FALSE]
        ELSE rc' = [rc EXCEPT !.pc = "configure",
                              !.calls = <<"Purchases.configure">>,
                              !.apiKey = getApiKey(platformOS, keys)]
  /\ RcFrame

\* Purchases.configure settles: the warm-up fetch is started, or the outer
\* catch returns false
PurchasesConfigureSettles ==
  /\ rc.pc = "configure"
  /\ \E ok \in BOOLEAN :
       IF ok
       THEN rc' = [rc EXCEPT !.pc = "getCustomerInfo", !.configured = "ok",
                             !.calls = Append(@, "Purchases.getCustomerInfo")]
       ELSE rc' = [rc EXCEPT !.pc = "returned", !.configured = "failed",
                             !.result = FALSE]
  /\ RcFrame

\* Purchases.getCustomerInfo settles and configureRevenueCat returns
GetCustomerInfoSettles ==
  /\ rc.pc = "getCustomerInfo"
  /\ \E fetched \in BOOLEAN :
       rc' = [rc EXCEPT !.pc = "returned",
                        !.warmUp = IF fetched THEN "ok" ELSE "failed",
                        !.result = ReturnAfterWarmUp(fetched)]
  /\ RcFrame

\* the build and the device: the environment, the local file, the platform
\* and the identifiers; the analysis code reads its key from the same
\* environment
InitBoot ==
  /\ AuthBoot(NoFirebaseUser)
  /\ HomeIdle
  /\ \/ \* every environment and local file
        /\ env \in Envs
        /\ localFile \in Files
        /\ platformOS = "ios"
        /\ rcIds = RC_IDS
        /\ kind = "food"
        /\ transport = "text"
        /\ weightData = SomeWeights
     \/ \* every platform, billing key and identifier
        /\ env \in {EnvWith(S, "") :
                      S \in SUBSET {"REVENUECAT_API_KEY_IOS",
                                    "REVENUECAT_API_KEY_ANDROID"}}
        /\ localFile = NoFile
        /\ platformOS \in Platforms
        /\ rcIds \in IdSets
        /\ kind = "food"
        /\ transport = "text"
        /\ weightData = SomeWeights
     \/ \* every source of the AI key, for every kind
        /\ env \in {EnvWith(S, eas) :
                      S \in SUBSET {"GEMINI_API_KEY", "EXPO_PUBLIC_GEMINI_API_KEY"},
                      eas \in {"", "true"}}
        /\ localFile \in {NoFile, FileWith({"geminiApiKey"})}
        /\ platformOS = "ios"
        /\ rcIds = RC_IDS
        /\ kind \in Kinds
        /\ transport \in {"text", "networkError"}
        /\ weightData \in {<<71>>, SomeWeights}
  /\ expoConfig = Unresolved
  /\ cfgPc = "unresolved"
  /\ rc = NoRcCall
  /\ apiKey = env["EXPO_PUBLIC_GEMINI_API_KEY"]
  /\ textContent = <<Value>>
  /\ literal = WellFormed(kind)
  /\ exerciseData = SomeExercise
  /\ aiPc = "ready"
  /\ outcome = NoOutcome

\* the application runs with the configuration its build resolved
NextBoot ==
  \/ ResolveConfig
  \/ ConfigureRevenueCat
  \/ PurchasesConfigureSettles
  \/ GetCustomerInfoSettles
  \/ cfgPc = "resolved" /\ AnalyzeFoodImage
  \/ cfgPc = "resolved" /\ GetNutritionRecommendations
  \/ cfgPc = "resolved" /\ AnalyzeExercise
  \/ cfgPc = "resolved" /\ AnalyzeWeightTrends

(***************************************************************************)
(* The boot screen: operations                                             *)
(***************************************************************************)
\* what Home shows in the current state
HomeView ==
  Home(authReady, isLoading, user, profile, profileLoading, isCheckingProfile)

HomeFrame == UNCHANGED <<aiVars, authVars, cfgVars, rcVars>>

\* useProfile hands over another profile or loading flag
ProfileChanges ==
  /\ \E p \in Profiles, l \in BOOLEAN :
       /\ <<p, l>> # <<profile, profileLoading>>
       /\ profile' = p
       /\ profileLoading' = l
  /\ UNCHANGED isCheckingProfile
  /\ HomeFrame

\* the effect of lines 23-29 finds auth ready and nothing loading
HomeEffect ==
  /\ authReady /\ ~isLoading /\ ~profileLoading
  /\ isCheckingProfile
  /\ isCheckingProfile' = FALSE
  /\ UNCHANGED <<profile, profileLoading>>
  /\ HomeFrame

\* the router shows the index route again and Home mounts afresh
HomeMounts ==
  /\ ~isCheckingProfile
  /\ isCheckingProfile' = TRUE
  /\ UNCHANGED <<profile, profileLoading>>
  /\ HomeFrame

InitHome ==
  /\ AiIdle
  /\ CfgIdle /\ RcIdle /\ HomeIdle
  /\ \E first \in FirebaseUsers \cup {NoFirebaseUser} : AuthBoot(first)

\* Home under the provider: the boot event, a sign-out and its event
NextHome ==
  \/ AuthStateChanged
  \/ HandlerContinues
  \/ Resubscribe
  \/ SignOut
  \/ RemoteSettles
  \/ OpStorageSettles
  \/ ProfileChanges
  \/ HomeEffect
  \/ HomeMounts

vars == <<aiVars, authVars, cfgVars, rcVars, homeVars>>

SpecAI == InitAI /\ [][NextAI]_vars

SpecAuth == InitAuth /\ [][NextAuth]_vars

\* the provider delivers every event it has queued, every storage call and
\* every remote call settles, and React runs the effect again after a render
\* that changed its dependencies; nothing obliges the user to start an
\* operation or the provider to change its user
AuthFairness ==
  /\ WF_vars(AuthStateChanged)
  /\ WF_vars(HandlerContinues)
  /\ WF_vars(Resubscribe)
  /\ WF_vars(RemoteSettles)
  /\ WF_vars(OpStorageSettles)

SpecAuthFair == InitAuth /\ [][NextAuth]_vars /\ AuthFairness

SpecBoot == InitBoot /\ [][NextBoot]_vars

SpecHome == InitHome /\ [][NextHome]_vars

(***************************************************************************)
(* Properties of the analysis operations                                   *)
(***************************************************************************)
Done == aiPc = "done"

\* the default table of the specification
DefaultOf(k) ==
  CASE k = "food" -> createDefaultResult
    [] k = "nutrition" -> createDefaultNutritionGoals
    [] k = "exercise" -> ExerciseFallback(exerciseData)
    [] k = "weight" -> createDefaultWeightAnalysis

\* C1: each analysis operation returns and never raises to its caller,
\* whatever the key, the transport and the text are.
C1_NeverRaises == Done => ~outcome.threw

\* a call whose transport failed, or whose payload was null, has returned
C1_Witness ==
  /\ Done /\ ~outcome.threw
  /\ outcome.stage \in {"transport", "typeError"}
  /\ outcome.calls # <<>>

\* C2: every numeric field of every returned result is present and is a
\* number.
C2_NumericFields ==
  Done =>
    /\ outcome.value.t = "object"
    /\ \A f \in NumericFieldsOf(kind) : Get(outcome.value, f).t = "number"

\* the transport was called and brought no JSON object back
NoObjectCameBack ==
  /\ outcome.calls # <<>>
  /\ \/ outcome.stage \in {"transport", "noMatch", "parseError", "typeError"}
     \/ outcome.stage = "decoded" /\ literal.t # "object"

\* C3: with a key, a malformed or empty body, or a text that is not a JSON
\* object, gives exactly the default of the kind.
C3_DefaultOnMalformed ==
  (Done /\ apiKey # "" /\ NoObjectCameBack) => outcome.value = DefaultOf(kind)

\* C4 as stated: without a key no transport call is made and the default of
\* the kind is returned.
C4_NoKeyDefault ==
  (Done /\ apiKey = "") =>
    /\ outcome.calls = <<>>
    /\ ~outcome.threw
    /\ outcome.value = DefaultOf(kind)

\* C4 amended: without a key no transport call is made, and the default of
\* the kind is returned, except that analyzeWeightTrends with fewer than two
\* samples returns its not-enough-data result.
C4_NoKeyDefaultOrFewSamples ==
  (Done /\ apiKey = "") =>
    /\ outcome.calls = <<>>
    /\ ~outcome.threw
    /\ outcome.value =
         IF kind = "weight" /\ Len(weightData) < 2 THEN NotEnoughData
         ELSE DefaultOf(kind)

\* each kind has returned its default without a key
C4_Witness ==
  /\ Done /\ apiKey = "" /\ outcome.calls = <<>>
  /\ kind = "weight" /\ Len(weightData) >= 2
  /\ outcome.value = createDefaultWeightAnalysis

DeclaredType(f) ==
  CASE f = "title" -> "string"
    [] f = "items" -> "array"
    [] OTHER -> "number"

RuntimeType(v) == IF v.t = "array" THEN "array" ELSE TypeOf(v)

\* C5: in analyzeFoodImage and getNutritionRecommendations every field of
\* the result is the decoded value when its type is the declared one and the
\* literal default of that field otherwise, whatever the other fields hold.
C5_PerFieldFallback ==
  (Done /\ kind \in {"food", "nutrition"} /\ outcome.stage = "decoded"
        /\ literal.t = "object") =>
    \A f \in FieldsOf(kind) :
      outcome.value.m[f] =
        IF RuntimeType(literal.m[f]) = DeclaredType(f) THEN literal.m[f]
        ELSE DefaultOf(kind).m[f]

\* the example of the specification: only calories is ill-typed
C5_Witness ==
  /\ Done /\ kind = "food" /\ outcome.stage = "decoded"
  /\ literal.t = "object"
  /\ literal.m["title"] = Str(<<"Salad">>)
  /\ literal.m["items"] = Arr(<<"lettuce">>)
  /\ literal.m["calories"].t = "string"
  /\ literal.m["protein"] = Num(5)
  /\ outcome.value.m["title"] = Str(<<"Salad">>)
  /\ outcome.value.m["items"] = Arr(<<"lettuce">>)
  /\ outcome.value.m["calories"] = Num(0)
  /\ outcome.value.m["protein"] = Num(5)

\* C6: analyzeWeightTrends with fewer than two samples returns the
\* not-enough-data result and makes no transport call, with or without a key.
C6_FewSamples ==
  (Done /\ kind = "weight" /\ Len(weightData) < 2) =>
    /\ outcome.value = NotEnoughData
    /\ outcome.calls = <<>>
    /\ ~outcome.threw

\* one sample and a configured key
C6_Witness ==
  /\ Done /\ kind = "weight" /\ Len(weightData) = 1 /\ apiKey # ""
  /\ outcome.value = NotEnoughData

(***************************************************************************)
(* Properties of the authentication reconciler                             *)
(***************************************************************************)
Finished(i) == handlers[i].pc = "done"

NavigationsOf(i) == {k \in 1..Len(nav) : nav[k].event = i}

\* C7: the first delivered event triggers no navigation; every later event
\* triggers exactly one, to "/" for a user and to the welcome screen for
\* null, also when it is delivered before the first handler has finished.
\* Stated of the handlers that ran to their end.
C7_NavigationPerEvent ==
  \A i \in 1..Len(handlers) :
    Finished(i) =>
      IF i = 1 THEN NavigationsOf(i) = {}
      ELSE /\ Cardinality(NavigationsOf(i)) = 1
           /\ \A k \in NavigationsOf(i) :
                nav[k].href = IF handlers[i].user # NoUser THEN Landing ELSE Welcome

\* C8: authReady, isLoading and user start as false, true and null, and
\* authReady never goes back to false.
C8_AuthReadyMonotonic ==
  /\ (authReady = FALSE /\ isLoading = TRUE /\ user = NoUser)
  /\ [][authReady => authReady']_vars

\* a later event and a call have been handled after authReady became true
C8_Witness ==
  /\ authReady
  /\ Len(handlers) >= 2 /\ handlers[2].capReady /\ handlers[2].pc = "done"
  /\ op.pc \in {"resolved", "rejected"}

\* what a handler leaves in storage for its user
StoredFor(h) ==
  IF h.user = NoUser THEN AUTH_SESSION_KEY \notin {kv[1] : kv \in storage}
  ELSE <<AUTH_SESSION_KEY, AuthSession(h.user, h.at)>> \in storage

\* C9: every event, user or null, is handled to completion: user is set to
\* the mapped identity, the snapshot is written or cleared, isLoading is
\* false and authReady is true afterwards.
C9_EveryEventHandled ==
  [][/\ Len(handlers') > Len(handlers) =>
          user' = formatUser(Head(upstream))
     /\ \A i \in 1..Len(handlers) :
          (handlers[i].pc = "saving" /\ handlers'[i].pc # "saving") =>
             /\ handlers'[i].pc = "done"
             /\ StoredFor(handlers[i])'
             /\ ~isLoading'
             /\ authReady']_vars

RemoteCalls ==
  {"signInWithEmailAndPassword", "createUserWithEmailAndPassword",
   "firebaseSignOut", "deleteUser"}

\* C10: each operation sets isLoading before it invokes its remote call; a
\* failed call leaves isLoading false and hands the caller the original
\* failure, except that deleteAccount replaces requires-recent-login by its
\* instruction, and fails with "No authenticated user found", the remote
\* delete not invoked, when there is no current user.
C10_FailureSurfaced ==
  /\ [](\A k \in 1..Len(op.log) :
          op.log[k] \in RemoteCalls =>
            \E j \in 1..(k - 1) : op.log[j] = "setIsLoading(true)")
  /\ [](op.pc = "rejected" =>
          /\ op.cause # ""
          /\ op.error =
               IF op.name = "deleteAccount" /\ op.cause = "auth/requires-recent-login"
               THEN ReauthenticateError ELSE op.cause
          /\ op.cause = NoCurrentUserError =>
               /\ op.name = "deleteAccount"
               /\ \A k \in 1..Len(op.log) : op.log[k] \notin RemoteCalls)
  /\ [][(op.pc # "rejected" /\ op'.pc = "rejected") => ~isLoading']_vars

\* deleteAccount has been refused for want of a recent login
C10_Witness ==
  /\ op.name = "deleteAccount" /\ op.pc = "rejected"
  /\ op.cause = "auth/requires-recent-login"
  /\ op.error = ReauthenticateError
  /\ ~isLoading

\* the session key is in local storage, whatever its value
SnapshotPresent == AUTH_SESSION_KEY \in {kv[1] : kv \in storage}

\* C11: once the handler of an event with a null payload has ended, and no
\* event with a user has been delivered after it, the session key is absent
\* from local storage, however the writes of earlier handlers and of signIn
\* and signUp interleave.
C11_LogoutClearsSnapshot ==
  \A i \in 1..Len(handlers) :
    (/\ handlers[i].user = NoUser
     /\ handlers[i].pc # "saving"
     /\ \A j \in (i + 1)..Len(handlers) : handlers[j].user = NoUser)
      => ~SnapshotPresent

(***************************************************************************)
(* Properties of the billing initialiser                                   *)
(***************************************************************************)
\* the key configureRevenueCat hands to the SDK on the running platform
PlatformCredential == getApiKey(platformOS, RC_API_KEYS(expoConfig))

\* one of the five values the billing module needs is the empty string
BillingValueMissing ==
  \/ PlatformCredential = ""
  \/ rcIds.PREMIUM_MONTHLY = ""
  \/ rcIds.PREMIUM_YEARLY = ""
  \/ rcIds.PREMIUM = ""
  \/ rcIds.DEFAULT = ""

\* C12: on every platform, when the key of the running platform, a product
\* id, the entitlement id or the offering id is empty, configureRevenueCat
\* returns false and calls neither Purchases.configure nor
\* Purchases.getCustomerInfo.
C12_NoCallWhenIncomplete ==
  (rc.pc # "idle" /\ BillingValueMissing) =>
    /\ rc.calls = <<>>
    /\ rc.pc = "returned"
    /\ rc.result = FALSE

(***************************************************************************)
(* Properties of the authentication reconciler, continued                  *)
(***************************************************************************)
\* C13: signIn, signUp, signOut and deleteAccount never navigate, whether
\* they succeed or fail; every navigation comes from a handler that ran to
\* its end, and a successful operation whose event has been handled has
\* caused exactly one navigation.
C13_OnlyHandlerNavigates ==
  /\ [][op' # op => nav' = nav]_vars
  /\ [](\A k \in 1..Len(nav) :
          nav[k].event \in 1..Len(handlers) /\ Finished(nav[k].event))
  /\ []((/\ op.pc = "resolved"
         /\ op.event \in 1..Len(handlers)
         /\ Finished(op.event))
          => Cardinality(NavigationsOf(op.event)) = 1)

(***************************************************************************)
(* Properties of the configuration resolver                                *)
(***************************************************************************)
\* what the environment supplies for a credential
FromEnv(c) ==
  IF c = "geminiApiKey"
  THEN IF env["GEMINI_API_KEY"] # "" THEN env["GEMINI_API_KEY"]
       ELSE env["EXPO_PUBLIC_GEMINI_API_KEY"]
  ELSE env[EnvNameOf(c)]

\* what the local override file supplies for a credential
FromFile(c) ==
  IF localFile.status = "loaded" THEN localFile.values[c] ELSE ""

\* C14: every credential of the resolved configuration is the value of the
\* environment when it is set, else the value of the local file when
\* EAS_BUILD is not "true" and the file supplies one, else the placeholder;
\* with EAS_BUILD "true" no value of the local file is in the result.
C14_Precedence ==
  cfgPc = "resolved" =>
    /\ \A c \in Credentials :
         expoConfig[c] =
           IF FromEnv(c) # "" THEN FromEnv(c)
           ELSE IF env["EAS_BUILD"] # "true" /\ FromFile(c) # "" THEN FromFile(c)
           ELSE Placeholder(c)
    /\ env["EAS_BUILD"] = "true" =>
         \A c, d \in Credentials : expoConfig[c] # LocalValue(d)

\* an EAS build with a local file that supplies the backend key: the
\* placeholder is resolved
C14_Witness ==
  /\ cfgPc = "resolved"
  /\ env["EAS_BUILD"] = "true"
  /\ env["FIREBASE_API_KEY"] = ""
  /\ localFile.status = "loaded"
  /\ localFile.values["firebaseApiKey"] = LocalValue("firebaseApiKey")
  /\ expoConfig["firebaseApiKey"] = "YOUR_FIREBASE_API_KEY"

(***************************************************************************)
(* Properties of the authentication reconciler and the boot screen         *)
(***************************************************************************)
\* C15: the handler of an event has run to its end before the handler of
\* the next event starts: no two handlers are in progress together.
C15_OneHandlerAtATime ==
  Cardinality({i \in 1..Len(handlers) : handlers[i].pc = "saving"}) <= 1

\* C16: the subscription made when the provider mounts is the only one:
\* handling an event never replaces it.
C16_SubscribedOnce == subCount = 1

\* C17: Home shows the loading view while authReady is false or auth or
\* profile is loading; a redirect goes to the signed-out welcome without a
\* user, to the setup welcome for a user with no profile, an empty name or
\* the name "User", and to the tabs otherwise.
C17_BootScreenGate ==
  /\ (~authReady \/ isLoading \/ profileLoading) => HomeView = LoadingView
  /\ HomeView # LoadingView =>
       HomeView =
         IF user = NoUser THEN OnboardingWelcome
         ELSE IF ~profile.exists \/ profile.name = "" \/ profile.name = "User"
              THEN SetupWelcome
              ELSE Tabs

\* a signed-in user whose profile still has the default name is sent to the
\* setup screens, after a sign-out call had set isLoading again
C17_Witness ==
  /\ HomeView = SetupWelcome
  /\ profile.exists /\ profile.name = "User"
  /\ user # NoUser
  /\ op.name = "signOut"

(***************************************************************************)
(* Properties of the analysis operations, continued                        *)
(***************************************************************************)
\* a call that got a text back from the model
GotText ==
  /\ Done /\ apiKey # "" /\ transport = "text"
  /\ kind = "weight" => Len(weightData) >= 2

\* the candidate of the first of the three patterns that matches
FirstMatch ==
  IF MatchFencedJson(Chars).found THEN MatchFencedJson(Chars)
  ELSE IF MatchFenced(Chars).found THEN MatchFenced(Chars)
  ELSE MatchBraces(Chars)

FirstCandidate ==
  IF FirstMatch.group # <<>> THEN FirstMatch.group ELSE FirstMatch.whole

\* the result follows the three ordered patterns
ByThreePatterns ==
  IF ~FirstMatch.found
  THEN outcome.stage = "noMatch" /\ outcome.value = DefaultOf(kind)
  ELSE IF ~JsonParse(FirstCandidate, literal).ok
       THEN outcome.stage = "parseError" /\ outcome.value = DefaultOf(kind)
       ELSE outcome.stage \in {"decoded", "typeError"}

\* C18 as stated: in all four kinds the first of the three patterns that
\* matches decides the candidate, and a candidate that does not decode gives
\* the default as if nothing had matched.
C18_ThreePatternsAllKinds == GotText => ByThreePatterns

\* C18 amended: so it is in analyzeFoodImage, getNutritionRecommendations
\* and analyzeWeightTrends; analyzeExercise tries one pattern, the longest
\* span from the first opening brace to the last closing brace, and returns
\* its fallback when that span is missing or does not decode.
C18_ThreePatternsButExercise ==
  GotText =>
    IF kind # "exercise" THEN ByThreePatterns
    ELSE IF ~MatchBracesGreedy(Chars).found
         THEN outcome.stage = "noMatch" /\ outcome.value = DefaultOf(kind)
         ELSE IF ~JsonParse(MatchBracesGreedy(Chars).whole, literal).ok
              THEN outcome.stage = "parseError" /\ outcome.value = DefaultOf(kind)
              ELSE outcome.stage \in {"decoded", "typeError"}

\* a fenced block that does not decode, followed by an object that would:
\* the default is returned
C18_Witness ==
  /\ GotText /\ kind = "food"
  /\ MatchFenced(Chars).found
  /\ ~JsonParse(FirstCandidate, literal).ok
  /\ JsonParse(MatchBraces(Chars).whole, literal).ok
  /\ literal = WellFormed("food")
  /\ outcome.value = createDefaultResult

(***************************************************************************)
(* Properties of the billing initialiser and of the key of the analyses    *)
(***************************************************************************)
\* C19: when validation passes, configureRevenueCat calls Purchases.configure
\* once, then getCustomerInfo at most once, and returns true exactly when
\* Purchases.configure succeeded, whatever the warm-up fetch did.
C19_WarmUpBestEffort ==
  (/\ rc.pc # "idle"
   /\ validateRevenueCatConfig(platformOS, RC_API_KEYS(expoConfig), rcIds)) =>
    /\ rc.calls \in {<<"Purchases.configure">>,
                     <<"Purchases.configure", "Purchases.getCustomerInfo">>}
    /\ Len(rc.calls) = 2 => rc.configured = "ok"
    /\ rc.pc = "returned" => (rc.result <=> rc.configured = "ok")

\* the warm-up fetch failed and configureRevenueCat returned true
C19_Witness ==
  /\ rc.pc = "returned"
  /\ rc.configured = "ok"
  /\ rc.warmUp = "failed"
  /\ rc.result = TRUE
  /\ rc.calls = <<"Purchases.configure", "Purchases.getCustomerInfo">>

\* C20: the analyses see the AI key the resolver produced: with a resolved
\* key that is not empty they call the transport, with an empty one they
\* return the default without a call.
C20_ResolvedKeyUsed ==
  (/\ Done /\ cfgPc = "resolved"
   /\ kind = "weight" => Len(weightData) >= 2) =>
    IF expoConfig["geminiApiKey"] # ""
    THEN outcome.calls # <<>>
    ELSE outcome.calls = <<>> /\ outcome.value = DefaultOf(kind)

\* the running operation has returned to its caller without an error
Resolved == op.pc = "resolved"

\* C21: once signIn, signUp, signOut or deleteAccount has returned without an
\* error, isLoading is false again at some later moment, given that queued
\* events are delivered and storage and remote calls settle.
C21_LoadingEnds == Resolved ~> (isLoading = FALSE)

\* C22: a signOut or deleteAccount whose remote call has failed, so that the
\* user stays signed in and no event follows, has not removed the session
\* snapshot that was stored when it was called.
C22_FailedLogoutKeepsSnapshot ==
  (/\ op.name \in {"signOut", "deleteAccount"}
   /\ op.pc = "rejected"
   /\ op.cause \in RemoteErrors) => ~op.cleared

\* every event has been delivered, every handler has ended and the effect
\* has nothing to subscribe again
HandlersEnded ==
  /\ upstream = <<>>
  /\ \A i \in 1..Len(handlers) : handlers[i].pc # "saving"
  /\ sub = [authReady |-> authReady, initializing |-> initializing]

\* C23: the navigations are issued in the order their events arrived, and
\* once every handler has ended the last navigation issued leads to "/"
\* exactly when user is not null.
C23_NavigationInArrivalOrder ==
  /\ \A k, l \in 1..Len(nav) : k < l => nav[k].event < nav[l].event
  /\ (HandlersEnded /\ nav # <<>>) =>
       (nav[Len(nav)].href = Landing <=> user # NoUser)

\* C24: a failure of local storage changes nothing but the snapshot: the
\* handler that awaited the storage call ends with authReady true and
\* isLoading false, and a signOut or deleteAccount that awaited it goes on to
\* its remote call.
C24_StorageFailureHarmless ==
  [][/\ \A i \in 1..Len(handlers) :
          (handlers[i].pc = "saving" /\ handlers'[i].pc # "saving") =>
            /\ handlers'[i].pc = "done"
            /\ authReady' = TRUE
            /\ isLoading' = FALSE
     /\ (/\ op.name \in {"signOut", "deleteAccount"}
         /\ op.pc = "saving" /\ op'.pc # "saving") => op'.pc = "remote"]_vars

====
